---- MODULE Spec2Model ----
(***************************************************************************)
(* Model of packages/osd-pm/src/utils/project.ts: the Project class of the *)
(* workspace package manager.  Texts are sequences of one-character        *)
(* strings, paths are sequences of segments (an absolute path starts with  *)
(* the empty segment), an optional value is the empty set or a singleton.  *)
(***************************************************************************)
EXTENDS Naturals, Sequences, FiniteSets, TLC

VARIABLES
    isWorkspaceRoot,    \* Project.isWorkspaceRoot
    isWorkspaceProject, \* Project.isWorkspaceProject
    json,               \* Project.json: the keys of dependencies / devDependencies
    files,              \* contents of package.json and yarn.lock of the project
    fsEntries,          \* paths for which existsSync answers true
    workspacesInfo,     \* what yarnWorkspacesInfo(this.path) resolves to
    call,               \* per invocation: the method called and its arguments
    pc,                 \* per invocation: the await it is suspended at
    steps,              \* per invocation: driver calls and effects, in order
    installs,           \* per invocation: the argument lists given to installInDir
    removed,            \* per invocation: the paths it unlinked
    files0,             \* files when the invocations were created
    fsEntries0,         \* fsEntries when the invocations were created
    dependent,          \* ensureValidProjectDependency: this
    dependency,         \* ensureValidProjectDependency: project
    dependentProjectIsInWorkspace,
    sep,                \* path.sep of the platform
    outcome,            \* result of ensureValidProjectDependency / getExecutables
    binJson             \* Project of getExecutables: name, path, json.bin

vars == <<isWorkspaceRoot, isWorkspaceProject, json, files, fsEntries, workspacesInfo,
          call, pc, steps, installs, removed, files0, fsEntries0,
          dependent, dependency, dependentProjectIsInWorkspace, sep, outcome, binJson>>

installVars == <<isWorkspaceRoot, isWorkspaceProject, json, files, fsEntries, workspacesInfo,
                 call, pc, steps, installs, removed, files0, fsEntries0>>

validateVars == <<dependent, dependency, dependentProjectIsInWorkspace, sep>>

-----------------------------------------------------------------------------
(* Bounds *)

MaxFrags == 2           \* lines per generated file
MaxWorkspaceDeps == 1   \* workspaceDependencies per member
MaxRootDeps == 1        \* keys per dependency block of the root manifest
MaxDepth == 2           \* directory depth of a project below the workspace

-----------------------------------------------------------------------------
(* Texts *)

Q == "\""

Some(x) == {x}
None == {}
Get(opt) == CHOOSE x \in opt : TRUE

IsPrefixAt(t, s, i) ==
    /\ i + Len(s) - 1 <= Len(t)
    /\ \A k \in 1..Len(s) : t[i + k - 1] = s[k]

StartsWith(t, s) == IsPrefixAt(t, s, 1)

RECURSIVE ReplaceFrom(_, _, _, _)
ReplaceFrom(t, s, r, i) ==
    IF i > Len(t) THEN <<>>
    ELSE IF IsPrefixAt(t, s, i) THEN r \o ReplaceFrom(t, s, r, i + Len(s))
    ELSE <<t[i]>> \o ReplaceFrom(t, s, r, i + 1)

RECURSIVE Concat(_)
Concat(ss) == IF ss = <<>> THEN <<>> ELSE Head(ss) \o Concat(Tail(ss))

SeqsUpTo(S, n) == UNION {[1..k -> S] : k \in 0..n}

SubsetsUpTo(S, n) == {T \in SUBSET S : Cardinality(T) <= n}

-----------------------------------------------------------------------------
(* Paths *)

RECURSIVE Resolve(_, _)
Resolve(base, rel) ==
    IF rel = <<>> THEN base
    ELSE IF Head(rel) = "" THEN Resolve(<<"">>, Tail(rel))
    ELSE IF Head(rel) = "." THEN Resolve(base, Tail(rel))
    ELSE IF Head(rel) = ".." THEN
        Resolve(IF Len(base) > 1 THEN SubSeq(base, 1, Len(base) - 1) ELSE base, Tail(rel))
    ELSE Resolve(Append(base, Head(rel)), Tail(rel))

ProjectPath == <<"", "ws">>

PackageJsonLocation == Resolve(ProjectPath, <<"package.json">>)

NodeModulesLocation == Resolve(ProjectPath, <<"node_modules">>)

YarnLockLocation == Resolve(ProjectPath, <<"yarn.lock">>)

-----------------------------------------------------------------------------
(* Template strings of installDependencyVersion *)

DevFlag == <<"-", "-", "d", "e", "v">>

\* `${depName}@${version}`
DepAt(depName, version) == depName \o <<"@">> \o version

\* `"${depName}": "${version}"`
DepEntry(depName, version) == <<Q>> \o depName \o <<Q, ":", " ", Q>> \o version \o <<Q>>

\* const rangeToUse = range || `^${version}`
RangeToUse(range, version) ==
    IF range = None \/ Get(range) = <<>> THEN <<"^">> \o version ELSE Get(range)

\* faulty variant: --dev is never pushed
ExtraArgs_NoDev(depName, version, dev) == <<DepAt(depName, version)>>

\* const extraArgs = [`${depName}@${version}`]; if (dev) extraArgs.push('--dev')
ExtraArgs(depName, version, dev) ==
    IF dev THEN <<DepAt(depName, version), DevFlag>> ELSE <<DepAt(depName, version)>>

\* the argument list installDependencyVersion hands to installInDir
VersionInstallArgs(c, workspaceProject) ==
    IF workspaceProject
    THEN [dir |-> ProjectPath, nargs |-> 1, extraArgs |-> None, isDependency |-> None]
    ELSE [dir |-> ProjectPath, nargs |-> 3,
          extraArgs |-> Some(ExtraArgs(c.depName, c.version, c.dev)),
          isDependency |-> Some(TRUE)]

\* the argument list installDependencies hands to installInDir
PlainInstallArgs(c) ==
    [dir |-> ProjectPath, nargs |-> 2, extraArgs |-> Some(c.extraArgs), isDependency |-> None]

\* faulty variant: the manifest is searched for the lock-file form
ManifestSearch_LockForm(c) == DepAt(c.depName, c.version)

ManifestSearch(c) == DepEntry(c.depName, c.version)
ManifestReplacement(c) == DepEntry(c.depName, RangeToUse(c.range, c.version))
LockSearch(c) == DepAt(c.depName, c.version)
LockReplacement(c) == DepAt(c.depName, RangeToUse(c.range, c.version))

-----------------------------------------------------------------------------
(* The driver (utils/scripts.ts) *)

\* patchFile(path, searchText, replaceText): every literal occurrence is replaced
PatchFile(fs, path, searchText, replaceText) ==
    [fs EXCEPT ![path] = ReplaceFrom(@, searchText, replaceText, 1)]

\* installInDir in a workspace root links every member into the root node_modules
InstallLinks(entries, root, info) ==
    IF root THEN entries \cup {Resolve(NodeModulesLocation, <<n>>) : n \in DOMAIN info}
    ELSE entries

-----------------------------------------------------------------------------
(* removeExtraneousNodeModules *)

\* faulty variant: the cross-project loop is skipped
UnusedWorkspaces_NoCrossDeps(info) == DOMAIN info

\* unusedWorkspaces after the cross-project loop
UnusedWorkspaces(info) ==
    DOMAIN info \ UNION {info[n].workspaceDependencies : n \in DOMAIN info}

\* faulty variant: the dependencies of the root are not consulted
IsDependency_Never(name) == FALSE

\* dependencies && dependencies.hasOwnProperty(name)
IsDependency(name) == \E d \in json.dependencies : name \in d

\* devDependencies && devDependencies.hasOwnProperty(name)
IsDevDependency(name) == \E d \in json.devDependencies : name \in d

\* the paths the forEach unlinks
Extraneous(info, entries) ==
    {Resolve(NodeModulesLocation, <<name>>) : name \in
        {n \in UnusedWorkspaces(info) :
            /\ ~IsDependency(n)
            /\ ~IsDevDependency(n)
            /\ Resolve(NodeModulesLocation, <<n>>) \in entries}}

Log(p, events) == [steps EXCEPT ![p] = @ \o events]

\* faulty variant: the isWorkspaceRoot guard is missing
EnterRemoveExtraneous_NoRootCheck(p, log) ==
    /\ pc' = [pc EXCEPT ![p] = "workspacesInfo"]
    /\ steps' = [steps EXCEPT ![p] = @ \o log \o <<"yarnWorkspacesInfo">>]

\* the synchronous head of removeExtraneousNodeModules, up to its await
EnterRemoveExtraneous(p, log) ==
    IF ~isWorkspaceRoot
    THEN /\ pc' = [pc EXCEPT ![p] = "done"]
         /\ steps' = [steps EXCEPT ![p] = @ \o log]
    ELSE /\ pc' = [pc EXCEPT ![p] = "workspacesInfo"]
         /\ steps' = [steps EXCEPT ![p] = @ \o log \o <<"yarnWorkspacesInfo">>]

CallRemoveExtraneousNodeModules(p) ==
    /\ pc[p] = "idle"
    /\ call[p].op = "removeExtraneousNodeModules"
    /\ EnterRemoveExtraneous(p, <<>>)
    /\ UNCHANGED <<isWorkspaceRoot, isWorkspaceProject, json, files, fsEntries, workspacesInfo,
                   call, installs, removed, files0, fsEntries0>>
    /\ UNCHANGED <<validateVars, outcome, binJson>>

WorkspacesInfoResolves(p) ==
    /\ pc[p] = "workspacesInfo"
    /\ LET gone == Extraneous(workspacesInfo, fsEntries) IN
        /\ fsEntries' = fsEntries \ gone
        /\ removed' = [removed EXCEPT ![p] = @ \cup gone]
        /\ steps' = Log(p, IF gone = {} THEN <<"yarnWorkspacesInfo:ok">>
                           ELSE <<"yarnWorkspacesInfo:ok", "unlinkSync">>)
    /\ pc' = [pc EXCEPT ![p] = "done"]
    /\ UNCHANGED <<isWorkspaceRoot, isWorkspaceProject, json, files, workspacesInfo,
                   call, installs, files0, fsEntries0>>
    /\ UNCHANGED <<validateVars, outcome, binJson>>

WorkspacesInfoRejects(p) ==
    /\ pc[p] = "workspacesInfo"
    /\ pc' = [pc EXCEPT ![p] = "failed"]
    /\ steps' = Log(p, <<"yarnWorkspacesInfo:error">>)
    /\ UNCHANGED <<isWorkspaceRoot, isWorkspaceProject, json, files, fsEntries, workspacesInfo,
                   call, installs, removed, files0, fsEntries0>>
    /\ UNCHANGED <<validateVars, outcome, binJson>>

-----------------------------------------------------------------------------
(* installDependencies *)

CallInstallDependencies(p) ==
    /\ pc[p] = "idle"
    /\ call[p].op = "installDependencies"
    /\ installs' = [installs EXCEPT ![p] = Append(@, PlainInstallArgs(call[p]))]
    /\ steps' = Log(p, <<"installInDir">>)
    /\ pc' = [pc EXCEPT ![p] = "install"]
    /\ UNCHANGED <<isWorkspaceRoot, isWorkspaceProject, json, files, fsEntries, workspacesInfo,
                   call, removed, files0, fsEntries0>>
    /\ UNCHANGED <<validateVars, outcome, binJson>>

-----------------------------------------------------------------------------
(* installDependencyVersion *)

CallInstallDependencyVersion(p) ==
    /\ pc[p] = "idle"
    /\ call[p].op = "installDependencyVersion"
    /\ installs' = [installs EXCEPT
                      ![p] = Append(@, VersionInstallArgs(call[p], isWorkspaceProject))]
    /\ steps' = Log(p, <<"installInDir">>)
    /\ pc' = [pc EXCEPT ![p] = "install"]
    /\ UNCHANGED <<isWorkspaceRoot, isWorkspaceProject, json, files, fsEntries, workspacesInfo,
                   call, removed, files0, fsEntries0>>
    /\ UNCHANGED <<validateVars, outcome, binJson>>

\* await installInDir(...) resolves; the caller runs on to its next await
InstallInDirResolves(p) ==
    /\ pc[p] = "install"
    /\ fsEntries' = InstallLinks(fsEntries, isWorkspaceRoot, workspacesInfo)
    /\ IF call[p].op = "installDependencies"
       THEN EnterRemoveExtraneous(p, <<"installInDir:ok">>)
       ELSE /\ pc' = [pc EXCEPT ![p] = "patchManifest"]
            /\ steps' = Log(p, <<"installInDir:ok", "patchFile:package.json">>)
    /\ UNCHANGED <<isWorkspaceRoot, isWorkspaceProject, json, files, workspacesInfo,
                   call, installs, removed, files0, fsEntries0>>
    /\ UNCHANGED <<validateVars, outcome, binJson>>

\* faulty variant: a failed install is swallowed and the manifest is patched all the same
InstallInDirRejects_Swallowed(p) ==
    /\ pc[p] = "install"
    /\ pc' = [pc EXCEPT ![p] = IF call[p].op = "installDependencies" THEN "failed"
                                 ELSE "patchManifest"]
    /\ steps' = Log(p, <<"installInDir:error", "patchFile:package.json">>)
    /\ UNCHANGED <<isWorkspaceRoot, isWorkspaceProject, json, files, fsEntries, workspacesInfo,
                   call, installs, removed, files0, fsEntries0>>
    /\ UNCHANGED <<validateVars, outcome, binJson>>

InstallInDirRejects(p) ==
    /\ pc[p] = "install"
    /\ pc' = [pc EXCEPT ![p] = "failed"]
    /\ steps' = Log(p, <<"installInDir:error">>)
    /\ UNCHANGED <<isWorkspaceRoot, isWorkspaceProject, json, files, fsEntries, workspacesInfo,
                   call, installs, removed, files0, fsEntries0>>
    /\ UNCHANGED <<validateVars, outcome, binJson>>

\* await patchFile(this.packageJsonLocation, ...) resolves
PatchManifestResolves(p) ==
    /\ pc[p] = "patchManifest"
    /\ files' = PatchFile(files, PackageJsonLocation,
                          ManifestSearch(call[p]), ManifestReplacement(call[p]))
    /\ pc' = [pc EXCEPT ![p] = "patchLock"]
    /\ steps' = Log(p, <<"patchFile:package.json:ok", "patchFile:yarn.lock">>)
    /\ UNCHANGED <<isWorkspaceRoot, isWorkspaceProject, json, fsEntries, workspacesInfo,
                   call, installs, removed, files0, fsEntries0>>
    /\ UNCHANGED <<validateVars, outcome, binJson>>

PatchManifestRejects(p) ==
    /\ pc[p] = "patchManifest"
    /\ pc' = [pc EXCEPT ![p] = "failed"]
    /\ steps' = Log(p, <<"patchFile:package.json:error">>)
    /\ UNCHANGED <<isWorkspaceRoot, isWorkspaceProject, json, files, fsEntries, workspacesInfo,
                   call, installs, removed, files0, fsEntries0>>
    /\ UNCHANGED <<validateVars, outcome, binJson>>

\* await patchFile(resolve(this.path, 'yarn.lock'), ...) resolves
PatchLockResolves(p) ==
    /\ pc[p] = "patchLock"
    /\ files' = PatchFile(files, YarnLockLocation, LockSearch(call[p]), LockReplacement(call[p]))
    /\ EnterRemoveExtraneous(p, <<"patchFile:yarn.lock:ok">>)
    /\ UNCHANGED <<isWorkspaceRoot, isWorkspaceProject, json, fsEntries, workspacesInfo,
                   call, installs, removed, files0, fsEntries0>>
    /\ UNCHANGED <<validateVars, outcome, binJson>>

PatchLockRejects(p) ==
    /\ pc[p] = "patchLock"
    /\ pc' = [pc EXCEPT ![p] = "failed"]
    /\ steps' = Log(p, <<"patchFile:yarn.lock:error">>)
    /\ UNCHANGED <<isWorkspaceRoot, isWorkspaceProject, json, files, fsEntries, workspacesInfo,
                   call, installs, removed, files0, fsEntries0>>
    /\ UNCHANGED <<validateVars, outcome, binJson>>

-----------------------------------------------------------------------------
(* ensureValidProjectDependency *)

LinkPrefix == <<"l", "i", "n", "k", ":">>

UndefinedText == <<"u", "n", "d", "e", "f", "i", "n", "e", "d">>

\* template interpolation of a possibly undefined string
Interpolate(opt) == IF opt = None THEN UndefinedText ELSE Get(opt)

\* { ...a, ...b }
Spread(a, b) ==
    [n \in DOMAIN a \cup DOMAIN b |-> IF n \in DOMAIN b THEN b[n] ELSE a[n]]

\* this.allDependencies = { ...this.devDependencies, ...this.productionDependencies }
AllDependencies(project) == Spread(project.devDependencies, project.productionDependencies)

\* obj[key], undefined when the key is missing
Lookup(obj, key) == IF key \in DOMAIN obj THEN Some(obj[key]) ELSE None

RECURSIVE CommonPrefixLen(_, _)
CommonPrefixLen(a, b) ==
    IF a = <<>> \/ b = <<>> \/ Head(a) # Head(b) THEN 0
    ELSE 1 + CommonPrefixLen(Tail(a), Tail(b))

\* the segments of path.relative(from, to)
RelativeSegs(from, to) ==
    LET k == CommonPrefixLen(from, to) IN
    [i \in 1..(Len(from) - k) |-> ".."] \o SubSeq(to, k + 1, Len(to))

SegText(seg) == IF seg = ".." THEN <<".", ".">> ELSE <<seg>>

RECURSIVE JoinSegs(_, _)
JoinSegs(segs, s) ==
    IF segs = <<>> THEN <<>>
    ELSE IF Len(segs) = 1 THEN SegText(Head(segs))
    ELSE SegText(Head(segs)) \o <<s>> \o JoinSegs(Tail(segs), s)

\* path.relative(from, to) on a platform whose separator is s
Relative(from, to, s) == JoinSegs(RelativeSegs(from, to), s)

IsSeparator(ch) == ch = "/" \/ ch = "\\"

\* faulty variant: the path is used as path.relative returns it
normalizePath_Identity(path) == path

\* path.replace(/[\\\/]+/g, '/')
RECURSIVE normalizePath(_)
normalizePath(path) ==
    IF path = <<>> THEN <<>>
    ELSE IF IsSeparator(Head(path)) THEN
        IF Len(path) > 1 /\ IsSeparator(path[2]) THEN normalizePath(Tail(path))
        ELSE <<"/">> \o normalizePath(Tail(path))
    ELSE <<Head(path)>> \o normalizePath(Tail(path))

\* isLinkDependency of utils/package_json.ts
isLinkDependency(opt) == opt # None /\ StartsWith(Get(opt), LinkPrefix)

versionInPackageJson(this, project) == Lookup(AllDependencies(this), project.name)

expectedVersionInPackageJson(this, project, inWorkspace, s) ==
    IF inWorkspace THEN project.version
    ELSE Some(LinkPrefix \o normalizePath(Relative(this.path, project.path, s)))

\* faulty variant: the workspace case is not told apart
problemMsg_NoWorkspaceCase(actual, inWorkspace) ==
    IF isLinkDependency(actual) THEN "using 'link:', but the path is wrong"
    ELSE "but it's not using the local package"

problemMsg(actual, inWorkspace) ==
    IF isLinkDependency(actual) /\ inWorkspace THEN "but should be using a workspace"
    ELSE IF isLinkDependency(actual) THEN "using 'link:', but the path is wrong"
    ELSE "but it's not using the local package"

NoOutcome ==
    [status |-> "none", problemMsg |-> "", dependent |-> <<>>, dependency |-> <<>>,
     actual |-> <<>>, expected |-> <<>>, package |-> <<>>]

ensureValidProjectDependency(this, project, inWorkspace, s) ==
    LET actual == versionInPackageJson(this, project)
        expected == expectedVersionInPackageJson(this, project, inWorkspace, s)
    IN  IF actual = expected
        THEN [NoOutcome EXCEPT !.status = "ok"]
        ELSE [status |-> "CliError",
              problemMsg |-> problemMsg(actual, inWorkspace),
              dependent |-> this.name,
              dependency |-> project.name,
              actual |-> DepEntry(project.name, Interpolate(actual)),
              expected |-> DepEntry(project.name, Interpolate(expected)),
              package |-> Resolve(this.path, <<"package.json">>)]

EnsureValidProjectDependency ==
    /\ outcome.status = "none"
    /\ outcome' = ensureValidProjectDependency(dependent, dependency,
                                               dependentProjectIsInWorkspace, sep)
    /\ UNCHANGED <<installVars, validateVars, binJson>>

-----------------------------------------------------------------------------
(* getExecutables *)

\* faulty variant: only a missing bin counts as absent
Falsy_OnlyUndefined(raw) == raw.t = "undefined"

\* !raw
Falsy(raw) ==
    \/ raw.t \in {"undefined", "null"}
    \/ raw.t = "boolean" /\ ~raw.b
    \/ raw.t = "number" /\ raw.n = 0
    \/ raw.t = "string" /\ raw.s = <<>>

\* typeof raw
TypeOf(raw) == IF raw.t \in {"null", "array", "object"} THEN "object" ELSE raw.t

NoExecutables == [status |-> "none", executables |-> <<>>, binConfig |-> None, package |-> <<>>]

getExecutables(this) ==
    LET raw == this.bin IN
    IF Falsy(raw) THEN [NoExecutables EXCEPT !.status = "ok"]
    ELSE IF TypeOf(raw) = "string" THEN
        [NoExecutables EXCEPT !.status = "ok",
                              !.executables = [k \in {this.name} |-> Resolve(this.path, raw.s)]]
    ELSE IF TypeOf(raw) = "object" THEN
        [NoExecutables EXCEPT !.status = "ok",
                              !.executables = [binName \in DOMAIN raw.m |->
                                                  Resolve(this.path, raw.m[binName])]]
    ELSE [NoExecutables EXCEPT !.status = "CliError",
                               !.binConfig = Some(raw),
                               !.package = Resolve(this.path, <<"package.json">>)]

GetExecutables ==
    /\ outcome.status = "none"
    /\ outcome' = getExecutables(binJson)
    /\ UNCHANGED <<installVars, validateVars, binJson>>

-----------------------------------------------------------------------------
(* Inputs *)

Names == {"a", "b", "c"}

LinkOf(name) == Resolve(NodeModulesLocation, <<name>>)

\* a workspace { a, b, c } in which only a depends on b
ExampleInfo ==
    [n \in Names |-> [workspaceDependencies |-> IF n = "a" THEN {"b"} ELSE {}]]

WorkspaceInfos ==
    UNION {[members -> [workspaceDependencies : SubsetsUpTo(Names, MaxWorkspaceDeps)]] :
              members \in SUBSET Names}

DependencyBlocks == {None} \cup {Some(keys) : keys \in SubsetsUpTo(Names, MaxRootDeps)}

Jsons == [dependencies : DependencyBlocks, devDependencies : DependencyBlocks]

Lib == <<"l">>
Version == <<"1">>

ManifestLines == {DepEntry(Lib, <<"1">>), DepEntry(Lib, <<"2">>), DepAt(Lib, <<"1">>)}
LockLines == {DepAt(Lib, <<"1">>), DepAt(Lib, <<"2">>), DepEntry(Lib, <<"1">>)}

\* a file of the given lines, each ended by a line feed
FileOf(lines) == Concat([i \in 1..Len(lines) |-> lines[i] \o <<"\n">>])

Ranges == {None, Some(<<>>), Some(<<"~", "1">>)}

NoCall ==
    [op |-> "none", extraArgs |-> <<>>, depName |-> <<>>, version |-> <<>>,
     dev |-> FALSE, range |-> None]

InstallDependenciesCalls ==
    {[NoCall EXCEPT !.op = "installDependencies", !.extraArgs = a] : a \in {<<>>, <<DevFlag>>}}

InstallDependencyVersionCalls ==
    {[NoCall EXCEPT !.op = "installDependencyVersion", !.depName = Lib, !.version = Version,
                    !.dev = d, !.range = r] : d \in BOOLEAN, r \in Ranges}

RemoveExtraneousCall == [NoCall EXCEPT !.op = "removeExtraneousNodeModules"]

ExampleFiles ==
    (PackageJsonLocation :> FileOf(<<DepEntry(Lib, <<"1">>)>>))
        @@ (YarnLockLocation :> FileOf(<<DepAt(Lib, <<"1">>), DepAt(Lib, <<"2">>)>>))

\* the state of the invocations p \in procs before any of them has started
Created(procs) ==
    /\ pc = [p \in procs |-> "idle"]
    /\ steps = [p \in procs |-> <<>>]
    /\ installs = [p \in procs |-> <<>>]
    /\ removed = [p \in procs |-> {}]
    /\ files0 = files
    /\ fsEntries0 = fsEntries

DirNames == {"p", "q"}

\* project directories below /ws
ProjectPaths == {<<"", "ws">> \o d : d \in SeqsUpTo(DirNames, MaxDepth) \ {<<>>}}

NoProject ==
    [name |-> <<>>, path |-> <<>>, version |-> None,
     productionDependencies |-> <<>>, devDependencies |-> <<>>]

NoBin == [t |-> "undefined", b |-> FALSE, n |-> 0, s |-> <<>>, m |-> <<>>]

NoBinProject == [name |-> "", path |-> <<>>, bin |-> NoBin]

NoInstall ==
    /\ isWorkspaceRoot = FALSE
    /\ isWorkspaceProject = FALSE
    /\ json = [dependencies |-> None, devDependencies |-> None]
    /\ files = ExampleFiles
    /\ fsEntries = {}
    /\ workspacesInfo = <<>>
    /\ call = <<>>
    /\ Created({})

NoValidate ==
    /\ dependent = NoProject
    /\ dependency = NoProject
    /\ dependentProjectIsInWorkspace = FALSE
    /\ sep = "/"

-----------------------------------------------------------------------------
(* Two invocations started concurrently on one Project *)

Init ==
    /\ isWorkspaceRoot \in BOOLEAN
    /\ isWorkspaceProject \in BOOLEAN
    /\ json \in {[dependencies |-> None, devDependencies |-> None],
                 [dependencies |-> Some({"a"}), devDependencies |-> Some({})]}
    /\ files = ExampleFiles
    /\ workspacesInfo = ExampleInfo
    /\ fsEntries \in {{}, {LinkOf("b"), LinkOf("x")}}
    /\ call \in [{1, 2} -> {c \in InstallDependenciesCalls \cup InstallDependencyVersionCalls :
                               c.extraArgs = <<>> /\ c.range # Some(<<>>) /\ ~c.dev}]
    /\ Created({1, 2})
    /\ NoValidate
    /\ outcome = NoOutcome
    /\ binJson = NoBinProject

Next ==
    \/ \E p \in DOMAIN pc : CallInstallDependencies(p)
    \/ \E p \in DOMAIN pc : CallInstallDependencyVersion(p)
    \/ \E p \in DOMAIN pc : InstallInDirResolves(p)
    \/ \E p \in DOMAIN pc : InstallInDirRejects(p)
    \/ \E p \in DOMAIN pc : PatchManifestResolves(p)
    \/ \E p \in DOMAIN pc : PatchManifestRejects(p)
    \/ \E p \in DOMAIN pc : PatchLockResolves(p)
    \/ \E p \in DOMAIN pc : PatchLockRejects(p)
    \/ \E p \in DOMAIN pc : WorkspacesInfoResolves(p)
    \/ \E p \in DOMAIN pc : WorkspacesInfoRejects(p)

Spec == Init /\ [][Next]_vars

-----------------------------------------------------------------------------
(* One installDependencyVersion or installDependencies call *)

InitVersion ==
    /\ isWorkspaceRoot \in BOOLEAN
    /\ isWorkspaceProject \in BOOLEAN
    /\ json = [dependencies |-> Some({"a"}), devDependencies |-> None]
    /\ \E m \in SeqsUpTo(ManifestLines, MaxFrags), l \in SeqsUpTo(LockLines, MaxFrags) :
          files = (PackageJsonLocation :> FileOf(m)) @@ (YarnLockLocation :> FileOf(l))
    /\ workspacesInfo = ExampleInfo
    /\ fsEntries = {LinkOf("x")}
    /\ call \in [{1} -> InstallDependenciesCalls \cup InstallDependencyVersionCalls]
    /\ Created({1})
    /\ NoValidate
    /\ outcome = NoOutcome
    /\ binJson = NoBinProject

SpecVersion == InitVersion /\ [][Next]_vars

-----------------------------------------------------------------------------
(* One removeExtraneousNodeModules call *)

InitReconciler ==
    /\ isWorkspaceRoot \in BOOLEAN
    /\ isWorkspaceProject = FALSE
    /\ json \in Jsons
    /\ files = ExampleFiles
    /\ workspacesInfo \in WorkspaceInfos
    /\ fsEntries \in {links \cup {LinkOf("x")} : links \in SUBSET {LinkOf(n) : n \in Names}}
    /\ call = [p \in {1} |-> RemoveExtraneousCall]
    /\ Created({1})
    /\ NoValidate
    /\ outcome = NoOutcome
    /\ binJson = NoBinProject

NextReconciler ==
    \/ \E p \in DOMAIN pc : CallRemoveExtraneousNodeModules(p)
    \/ \E p \in DOMAIN pc : WorkspacesInfoResolves(p)
    \/ \E p \in DOMAIN pc : WorkspacesInfoRejects(p)

SpecReconciler == InitReconciler /\ [][NextReconciler]_vars

-----------------------------------------------------------------------------
(* One ensureValidProjectDependency call *)

AppName == <<"a">>

\* what the dependent may declare for the dependency
Declarations(from, to) ==
    {<<"1">>, <<"^", "1">>,
     LinkPrefix \o Relative(from, to, "/"),
     LinkPrefix \o Relative(from, to, "\\"),
     LinkPrefix \o <<"q">>}

DependencyMaps(from, to) ==
    {<<>>} \cup {(Lib :> v) : v \in Declarations(from, to)}

InitValidate ==
    /\ NoInstall
    /\ sep \in {"/", "\\"}
    /\ dependentProjectIsInWorkspace \in BOOLEAN
    /\ \E from \in ProjectPaths, to \in ProjectPaths :
        /\ dependency \in {[NoProject EXCEPT !.name = Lib, !.path = to, !.version = v] :
                              v \in {None, Some(<<"1">>), Some(<<"2">>)}}
        /\ dependent \in {[NoProject EXCEPT !.name = AppName, !.path = from,
                                            !.productionDependencies = prod,
                                            !.devDependencies = dev] :
                             prod \in DependencyMaps(from, to), dev \in DependencyMaps(from, to)}
    /\ outcome = NoOutcome
    /\ binJson = NoBinProject

NextValidate == EnsureValidProjectDependency

SpecValidate == InitValidate /\ [][NextValidate]_vars

-----------------------------------------------------------------------------
(* One getExecutables call *)

BinPaths == {<<".", "bin", "cli.js">>, <<"cli.js">>, <<"..", "cli.js">>}

BinValues ==
    {NoBin, [NoBin EXCEPT !.t = "null"]}
    \cup {[NoBin EXCEPT !.t = "boolean", !.b = b] : b \in BOOLEAN}
    \cup {[NoBin EXCEPT !.t = "number", !.n = n] : n \in {0, 42}}
    \cup {[NoBin EXCEPT !.t = "string", !.s = s] : s \in BinPaths \cup {<<>>}}
    \cup {[NoBin EXCEPT !.t = "object", !.m = m] :
             m \in UNION {[keys -> BinPaths] : keys \in SUBSET {"cli", "dev"}}}
    \cup {[NoBin EXCEPT !.t = "array", !.m = m] :
             m \in UNION {[keys -> BinPaths] : keys \in {{}, {"0"}, {"0", "1"}}}}

InitBin ==
    /\ NoInstall
    /\ NoValidate
    /\ outcome = NoExecutables
    /\ binJson \in [name : {"foo", "bar"}, path : ProjectPaths, bin : BinValues]

NextBin == GetExecutables

SpecBin == InitBin /\ [][NextBin]_vars

-----------------------------------------------------------------------------
(* Properties of removeExtraneousNodeModules *)

Members == DOMAIN workspacesInfo

DependedOnByAMember(n) == \E m \in Members : n \in workspacesInfo[m].workspaceDependencies

DeclaredByRoot(n) ==
    \/ \E keys \in json.dependencies : n \in keys
    \/ \E keys \in json.devDependencies : n \in keys

ReconcilerRan(p) ==
    /\ call[p].op = "removeExtraneousNodeModules"
    /\ isWorkspaceRoot
    /\ pc[p] = "done"

\* C1: removeExtraneousNodeModules on a workspace root removes exactly the entries whose
\* name is a workspace member, is a workspaceDependency of no member, is declared in neither
\* dependencies nor devDependencies of the root, and existed before the call; every other
\* entry stays.
C1_ExactRemoval ==
    \A p \in DOMAIN pc :
        ReconcilerRan(p) =>
            /\ \A n \in Names \cup {"x"} :
                  LinkOf(n) \in fsEntries <=>
                      /\ LinkOf(n) \in fsEntries0
                      /\ ~(/\ n \in Members
                           /\ ~DependedOnByAMember(n)
                           /\ ~DeclaredByRoot(n))
            /\ removed[p] = fsEntries0 \ fsEntries
            /\ fsEntries \subseteq fsEntries0

\* a member link survives only because another member depends on it, while another is removed
C1_Witness ==
    /\ ReconcilerRan(1)
    /\ removed[1] # {}
    /\ \E n \in Members :
          /\ LinkOf(n) \in fsEntries
          /\ DependedOnByAMember(n)
          /\ ~DeclaredByRoot(n)
    /\ \E n \in Members : LinkOf(n) \in fsEntries /\ DeclaredByRoot(n) /\ ~DependedOnByAMember(n)

ExampleWorkspace ==
    /\ workspacesInfo = ExampleInfo
    /\ ~DeclaredByRoot("b")
    /\ ~DeclaredByRoot("c")
    /\ {LinkOf("a"), LinkOf("b"), LinkOf("c")} \subseteq fsEntries0

\* C2 as stated: in the workspace { a, b, c } with a -> b, a root declaring neither b nor c
\* and all links present, exactly the link of c is removed.
C2_Original ==
    \A p \in DOMAIN pc :
        (ReconcilerRan(p) /\ ExampleWorkspace) => removed[p] = {LinkOf("c")}

\* C2 amended: in that workspace the link of c is removed, the link of b stays, and the link
\* of a is removed exactly when the root does not declare a; nothing else is removed.
C2_ExampleRemoval ==
    \A p \in DOMAIN pc :
        (ReconcilerRan(p) /\ ExampleWorkspace) =>
            /\ LinkOf("c") \in removed[p]
            /\ LinkOf("b") \in fsEntries
            /\ LinkOf("a") \in removed[p] <=> ~DeclaredByRoot("a")
            /\ removed[p] \subseteq {LinkOf("a"), LinkOf("c")}
            /\ fsEntries = fsEntries0 \ removed[p]

C2_Witness ==
    /\ ReconcilerRan(1)
    /\ ExampleWorkspace
    /\ DeclaredByRoot("a")
    /\ removed[1] = {LinkOf("c")}
    /\ LinkOf("x") \in fsEntries

-----------------------------------------------------------------------------
(* Properties of installDependencies and installDependencyVersion *)

Has(seq, x) == \E i \in 1..Len(seq) : seq[i] = x

Count(seq, x) == Cardinality({i \in 1..Len(seq) : seq[i] = x})

\* x occurs in seq, and before every occurrence of y
Precedes(seq, x, y) ==
    \A j \in 1..Len(seq) : seq[j] = y => \E i \in 1..(j - 1) : seq[i] = x

\* C3: in installDependencies the workspace-info query and any removal happen only after
\* installInDir has resolved and only on a workspace root; on any other project the info is
\* never queried and no entry of node_modules disappears.
C3_ReconcilerAfterInstall ==
    \A p \in DOMAIN pc :
        call[p].op = "installDependencies" =>
            /\ Precedes(steps[p], "installInDir:ok", "yarnWorkspacesInfo")
            /\ Precedes(steps[p], "yarnWorkspacesInfo:ok", "unlinkSync")
            /\ removed[p] # {} => Has(steps[p], "unlinkSync")
            /\ Has(steps[p], "yarnWorkspacesInfo") => isWorkspaceRoot
            /\ ~isWorkspaceRoot =>
                  /\ removed[p] = {}
                  /\ fsEntries0 \subseteq fsEntries
            /\ (pc[p] = "done" /\ isWorkspaceRoot) => Has(steps[p], "yarnWorkspacesInfo:ok")

C3_Witness ==
    /\ call[1].op = "installDependencies"
    /\ pc[1] = "done"
    /\ isWorkspaceRoot
    /\ removed[1] # {}

C3_WitnessNotRoot ==
    /\ call[1].op = "installDependencies"
    /\ pc[1] = "done"
    /\ ~isWorkspaceRoot
    /\ fsEntries # {}

RECURSIVE Lines(_)
Lines(t) ==
    IF t = <<>> THEN <<>>
    ELSE LET k == CHOOSE i \in 1..Len(t) : t[i] = "\n" /\ \A j \in 1..(i - 1) : t[j] # "\n"
         IN  <<SubSeq(t, 1, k - 1)>> \o Lines(SubSeq(t, k + 1, Len(t)))

\* the file t with every line equal to s replaced by r
MapLines(t, s, r) ==
    LET ls == Lines(t) IN FileOf([i \in 1..Len(ls) |-> IF ls[i] = s THEN r ELSE ls[i]])

Patched(p) ==
    /\ call[p].op = "installDependencyVersion"
    /\ Has(steps[p], "patchFile:yarn.lock:ok")

At(name, v) == name \o <<"@">> \o v

Entry(name, v) == <<Q>> \o name \o <<Q, ":", " ", Q>> \o v \o <<Q>>

Caret(v) == <<"^">> \o v

\* C4 as stated: both the manifest and the lock file have every `depName@version` replaced by
\* `depName@range`, range being ^version when none is given, and nothing else is touched.
C4_Original ==
    \A p \in DOMAIN pc :
        Patched(p) =>
            LET c == call[p]
                range == IF c.range \in {None, Some(<<>>)} THEN Caret(c.version)
                         ELSE Get(c.range)
            IN  /\ files[PackageJsonLocation] =
                       MapLines(files0[PackageJsonLocation],
                                At(c.depName, c.version), At(c.depName, range))
                /\ files[YarnLockLocation] =
                       MapLines(files0[YarnLockLocation],
                                At(c.depName, c.version), At(c.depName, range))

\* C4 amended: the manifest has every `"depName": "version"` replaced by `"depName": "range"`,
\* the lock file has every `depName@version` replaced by `depName@range`, range being ^version
\* when no range or an empty range is given; nothing else in either file is touched.
C4_PatchedTexts ==
    \A p \in DOMAIN pc :
        Patched(p) =>
            LET c == call[p]
                range == IF c.range \in {None, Some(<<>>)} THEN Caret(c.version)
                         ELSE Get(c.range)
            IN  /\ files[PackageJsonLocation] =
                       MapLines(files0[PackageJsonLocation],
                                Entry(c.depName, c.version), Entry(c.depName, range))
                /\ files[YarnLockLocation] =
                       MapLines(files0[YarnLockLocation],
                                At(c.depName, c.version), At(c.depName, range))

C4_Witness ==
    /\ Patched(1)
    /\ call[1].range = None
    /\ files[PackageJsonLocation] # files0[PackageJsonLocation]
    /\ files[YarnLockLocation] # files0[YarnLockLocation]
    /\ Has(Lines(files[PackageJsonLocation]), At(Lib, Version))
    /\ Has(Lines(files[YarnLockLocation]), At(Lib, <<"2">>))

\* C5: installDependencyVersion calls installInDir exactly once: on a workspace project with
\* the directory alone, otherwise with [`depName@version`] plus '--dev' exactly when dev is
\* set, and marked as a dependency install.
C5_InstallArguments ==
    \A p \in DOMAIN pc :
        (call[p].op = "installDependencyVersion" /\ pc[p] # "idle") =>
            /\ Len(installs[p]) = 1
            /\ LET c == call[p]
                   a == installs[p][1]
               IN  /\ a.dir = ProjectPath
                   /\ isWorkspaceProject =>
                         /\ a.nargs = 1
                         /\ a.extraArgs = None
                         /\ a.isDependency = None
                   /\ ~isWorkspaceProject =>
                         /\ a.isDependency = Some(TRUE)
                         /\ a.extraArgs # None
                         /\ LET args == Get(a.extraArgs) IN
                               /\ Len(args) = (IF c.dev THEN 2 ELSE 1)
                               /\ args[1] = At(c.depName, c.version)
                               /\ c.dev => args[2] = <<"-", "-", "d", "e", "v">>

C5_Witness ==
    /\ call[1].op = "installDependencyVersion"
    /\ pc[1] = "done"
    /\ call[1].dev
    /\ ~isWorkspaceProject
    /\ Len(Get(installs[1][1].extraArgs)) = 2

C5_WitnessWorkspace ==
    /\ call[1].op = "installDependencyVersion"
    /\ pc[1] = "done"
    /\ call[1].dev
    /\ isWorkspaceProject

\* the invocation is between the start of its install and the end of its last patch
InFlight(p) == pc[p] \in {"install", "patchManifest", "patchLock"}

\* C9: two invocations started concurrently on one Project are serialized: the install and
\* the two patches of one never run between the first and the last of those steps of the other.
C9_Serialized == ~(InFlight(1) /\ InFlight(2))

CanonicalSteps ==
    <<"installInDir", "installInDir:ok",
      "patchFile:package.json", "patchFile:package.json:ok",
      "patchFile:yarn.lock", "patchFile:yarn.lock:ok",
      "yarnWorkspacesInfo", "yarnWorkspacesInfo:ok", "unlinkSync">>

IsPrefix(a, b) == Len(a) <= Len(b) /\ \A i \in 1..Len(a) : a[i] = b[i]

DriverCalls == {"installInDir", "patchFile:package.json", "patchFile:yarn.lock",
                "yarnWorkspacesInfo"}

ErrorOf(driverCall) ==
    CASE driverCall = "installInDir" -> "installInDir:error"
      [] driverCall = "patchFile:package.json" -> "patchFile:package.json:error"
      [] driverCall = "patchFile:yarn.lock" -> "patchFile:yarn.lock:error"
      [] driverCall = "yarnWorkspacesInfo" -> "yarnWorkspacesInfo:error"

\* C10: one installDependencyVersion call runs install, manifest patch, lock patch and
\* Reconciler in that order, each after the previous one succeeded and each driver call at
\* most once; a failure ends the call, and after a failed install the manifest, the lock file
\* and node_modules are as they were.
C10_StepOrder ==
    \A p \in DOMAIN pc :
        call[p].op = "installDependencyVersion" =>
            /\ \A d \in DriverCalls : Count(steps[p], d) <= 1
            /\ Len(installs[p]) <= 1
            /\ pc[p] # "failed" => IsPrefix(steps[p], CanonicalSteps)
            /\ pc[p] = "failed" =>
                  /\ steps[p] # <<>>
                  /\ LET n == Len(steps[p]) - 1 IN
                        /\ n >= 1
                        /\ IsPrefix(SubSeq(steps[p], 1, n), CanonicalSteps)
                        /\ steps[p][n] \in DriverCalls
                        /\ steps[p][n + 1] = ErrorOf(steps[p][n])
            /\ Has(steps[p], "installInDir:error") =>
                  /\ files = files0
                  /\ fsEntries = fsEntries0
                  /\ removed[p] = {}
            /\ Has(steps[p], "patchFile:package.json:error") =>
                  /\ files = files0
                  /\ removed[p] = {}
            /\ Has(steps[p], "patchFile:yarn.lock:error") =>
                  /\ files[YarnLockLocation] = files0[YarnLockLocation]
                  /\ removed[p] = {}
            /\ Has(steps[p], "yarnWorkspacesInfo:error") => removed[p] = {}
            /\ pc[p] = "done" =>
                  /\ Has(steps[p], "patchFile:yarn.lock:ok")
                  /\ isWorkspaceRoot => Has(steps[p], "yarnWorkspacesInfo:ok")

C10_Witness ==
    /\ call[1].op = "installDependencyVersion"
    /\ pc[1] = "failed"
    /\ Has(steps[1], "installInDir:error")
    /\ isWorkspaceRoot
    /\ Has(Lines(files[PackageJsonLocation]), Entry(Lib, Version))

C10_WitnessDone ==
    /\ call[1].op = "installDependencyVersion"
    /\ pc[1] = "done"
    /\ removed[1] # {}
    /\ files[PackageJsonLocation] # files0[PackageJsonLocation]

-----------------------------------------------------------------------------
(* Properties of ensureValidProjectDependency *)

\* what the dependent declares for the dependency, the production entry winning
Declared ==
    IF dependency.name \in DOMAIN dependent.productionDependencies
    THEN Some(dependent.productionDependencies[dependency.name])
    ELSE IF dependency.name \in DOMAIN dependent.devDependencies
    THEN Some(dependent.devDependencies[dependency.name])
    ELSE None

\* link: followed by the relative path written with forward slashes
ExpectedLink ==
    <<"l", "i", "n", "k", ":">> \o JoinSegs(RelativeSegs(dependent.path, dependency.path), "/")

Expected ==
    IF dependentProjectIsInWorkspace THEN dependency.version ELSE Some(ExpectedLink)

Validated == outcome.status \in {"ok", "CliError"}

\* C6: ensureValidProjectDependency returns silently exactly when the declaration of the
\* dependent for the dependency (production before dev) equals the version of the dependency
\* for a workspace member, and otherwise link: plus the relative path with / separators;
\* in every other case it throws.
C6_SucceedsIffExpected ==
    /\ outcome.status \in {"none", "ok", "CliError"}
    /\ Validated => (outcome.status = "ok" <=> Declared = Expected)

C6_Witness ==
    /\ outcome.status = "ok"
    /\ ~dependentProjectIsInWorkspace
    /\ sep = "\\"
    /\ Len(RelativeSegs(dependent.path, dependency.path)) > 2
    /\ DOMAIN dependent.devDependencies # {}
    /\ dependent.devDependencies[Lib] # Get(Declared)

C6_WitnessWorkspace ==
    /\ outcome.status = "ok"
    /\ dependentProjectIsInWorkspace
    /\ Declared # None

DeclaredIsLink == Declared # None /\ Len(Get(Declared)) >= 5
                     /\ SubSeq(Get(Declared), 1, 5) = <<"l", "i", "n", "k", ":">>

TextOf(opt) == IF opt = None THEN <<"u", "n", "d", "e", "f", "i", "n", "e", "d">> ELSE Get(opt)

\* C7: a failing ensureValidProjectDependency says 'should be using a workspace' for a link
\* declaration of a workspace member, 'the path is wrong' for a link declaration otherwise,
\* 'not using the local package' for any other declaration, and carries both project names
\* and the actual and expected declarations as "name": "value".
C7_ErrorClass ==
    outcome.status = "CliError" =>
        /\ outcome.problemMsg =
              (IF DeclaredIsLink /\ dependentProjectIsInWorkspace
                   THEN "but should be using a workspace"
               ELSE IF DeclaredIsLink /\ ~dependentProjectIsInWorkspace
                   THEN "using 'link:', but the path is wrong"
               ELSE "but it's not using the local package")
        /\ outcome.dependent = dependent.name
        /\ outcome.dependency = dependency.name
        /\ outcome.actual = Entry(dependency.name, TextOf(Declared))
        /\ outcome.expected = Entry(dependency.name, TextOf(Expected))

C7_Witness ==
    /\ outcome.status = "CliError"
    /\ DeclaredIsLink
    /\ dependentProjectIsInWorkspace
    /\ dependency.version # None

C7_WitnessWrongPath ==
    /\ outcome.status = "CliError"
    /\ DeclaredIsLink
    /\ ~dependentProjectIsInWorkspace

C7_WitnessNotLocal ==
    /\ outcome.status = "CliError"
    /\ Declared = Some(<<"^", "1">>)

-----------------------------------------------------------------------------
(* Properties of getExecutables *)

Executed == outcome.status \in {"ok", "CliError"}

bin == binJson.bin

\* C8 as stated: getExecutables throws for every bin that is present and neither a string
\* nor a name-to-path mapping (a number, a boolean, null, a list), and returns a mapping
\* only for an absent bin, a string or a name-to-path mapping.
C8_Original ==
    Executed =>
        (outcome.status = "CliError" <=> bin.t \in {"null", "boolean", "number", "array"})

\* C8 amended: getExecutables throws exactly for a bin that is true or a non-zero number,
\* carrying the raw value and the manifest location; an absent, null, false, 0 or empty-string
\* bin yields the empty mapping, a non-empty string one entry keyed by the project name, and
\* an object or a list one entry per key or index, each path resolved against the project
\* directory.
C8_Executables ==
    Executed =>
        /\ outcome.status = "CliError" <=>
              \/ bin.t = "boolean" /\ bin.b
              \/ bin.t = "number" /\ bin.n # 0
        /\ outcome.status = "CliError" =>
              /\ outcome.binConfig = Some(bin)
              /\ outcome.package = binJson.path \o <<"package.json">>
        /\ outcome.status = "ok" =>
              /\ (\/ bin.t \in {"undefined", "null", "boolean", "number"}
                  \/ bin.t = "string" /\ bin.s = <<>>) => DOMAIN outcome.executables = {}
              /\ (bin.t = "string" /\ bin.s # <<>>) =>
                    /\ DOMAIN outcome.executables = {binJson.name}
                    /\ outcome.executables[binJson.name] = Resolve(binJson.path, bin.s)
              /\ bin.t \in {"object", "array"} =>
                    /\ DOMAIN outcome.executables = DOMAIN bin.m
                    /\ \A k \in DOMAIN bin.m :
                          outcome.executables[k] = Resolve(binJson.path, bin.m[k])

C8_Witness ==
    /\ outcome.status = "CliError"
    /\ bin.t = "number"
    /\ bin.n = 42

C8_WitnessString ==
    /\ outcome.status = "ok"
    /\ bin.t = "string"
    /\ binJson.name = "foo"
    /\ binJson.path = <<"", "ws", "p">>
    /\ outcome.executables = [k \in {"foo"} |-> <<"", "ws", "p", "bin", "cli.js">>]

====
